---- MODULE Spec2Model ----
(***************************************************************************)
(* Model of src/main.py: the LINE webhook handler handle_callback, the     *)
(* per-user daily counter user_message_counts, and the backend client      *)
(* call_openai_assistant_api.                                              *)
(*                                                                         *)
(* Scheduling.  handle_callback is a coroutine run by a single asyncio     *)
(* event loop.  A coroutine gives up the loop only at an await that really *)
(* suspends: request.body() (line 98) and line_bot_api.reply_message       *)
(* (lines 124, 132, 147).  call_openai_assistant_api is declared async but *)
(* contains no await: it uses the synchronous OpenAI client, so the await  *)
(* at line 139 runs it inline and the whole event loop is held until it    *)
(* returns.  The model therefore lets no other coroutine step while some   *)
(* handler is inside the backend call (LoopFree).                          *)
(*                                                                         *)
(* Texts are sequences of characters.  The source's literals are not       *)
(* ASCII, so each fixed text is written as a one-character sequence named  *)
(* after the literal, and the trigger phrases by their pinyin syllables.   *)
(* Lines 21-32 (configuration loading) and 93-106 (signature check and     *)
(* parsing) are the adapter; the model starts at the parsed event list and *)
(* takes the configuration names read at lines 26 and 60 as bound.         *)
(*                                                                         *)
(* Spec is the dispatcher with its quota store; SpecApi is the backend     *)
(* client alone, run on every backend response within the bounds.          *)
(***************************************************************************)
EXTENDS Integers, Sequences, FiniteSets, TLC

\* ------------------------------------------------------------------ bounds
MaxTime == 1
MaxBatch == 2
MaxValueLen == 3
MaxAnnotations == 2

Handlers == {"h1", "h2"}
Users == {"u1", "u2"}

\* --------------------------------------------------------------- constants
USER_DAILY_LIMIT == 10

\* timedelta(days=1): the clock ticks in days
Day == 1

introduction_message == <<"INTRODUCTION">>
QuotaExceededText == <<"QUOTA_EXCEEDED">>
OpenAIErrorText == <<"CANNOT_PROCESS_RETRY_LATER">>
UnknownErrorText == <<"SYSTEM_ERROR_RETRY_LATER">>
ProcessingErrorText == <<"PROCESSING_ERROR_RETRY_LATER">>
NoText == <<>>

\* "介紹" and "你是誰"
TriggerIntroduce == <<"jie", "shao">>
TriggerWhoAreYou == <<"ni", "shi", "shei">>

\* ------------------------------------------------------------ text helpers
\* Python: sub in s
Contains(s, sub) ==
    \E i \in 0..(Len(s) - Len(sub)) : SubSeq(s, i + 1, i + Len(sub)) = sub

StartsWith(s, p) == Len(p) <= Len(s) /\ SubSeq(s, 1, Len(p)) = p

EndsWith(s, p) == Len(p) <= Len(s) /\ SubSeq(s, Len(s) - Len(p) + 1, Len(s)) = p

\* Python: s.replace(old, new) for a non-empty old: every non-overlapping
\* occurrence, scanning left to right
RECURSIVE StrReplace(_, _, _)
StrReplace(s, old, new) ==
    IF Len(s) < Len(old) \/ old = <<>> THEN s
    ELSE IF StartsWith(s, old)
         THEN new \o StrReplace(SubSeq(s, Len(old) + 1, Len(s)), old, new)
         ELSE <<Head(s)>> \o StrReplace(Tail(s), old, new)

Digit(i) == CASE i = 0 -> "0" [] i = 1 -> "1" [] i = 2 -> "2" [] OTHER -> "9"

\* f"[{index}]"
IndexTag(index) == <<"[", Digit(index), "]">>

\* ---------------------------------------------------------- backend client
\* What the OpenAI calls of lines 60-69 and 78 produce.  err is the exception
\* they raise, if any; messages is the list read at line 69; each annotation
\* has its text and the filename of its file_citation (NoFile: the annotation
\* has no file_citation attribute); retrieve_fails: client.files.retrieve
\* (line 78) raises an OpenAIError.
NoFile == "none"
Filenames == {"f1.pdf", "f2.pdf"}
ValueChars == {"a", "b"}
AnnotationTexts == {<<"a">>, <<"b">>}

SeqsUpTo(S, n) == UNION {[1..k -> S] : k \in 0..n}

Annotations == [text : AnnotationTexts, file : Filenames \cup {NoFile}]

Contents == [value : SeqsUpTo(ValueChars, MaxValueLen),
             annotations : SeqsUpTo(Annotations, MaxAnnotations)]

ErrorResponses ==
    [err : {"OpenAIError", "Exception"}, messages : {<<>>}, retrieve_fails : {FALSE}]

Responses ==
    ErrorResponses \cup
    [err : {"none"}, messages : {<<>>}, retrieve_fails : {FALSE}] \cup
    [err : {"none"}, messages : {<<c>> : c \in Contents}, retrieve_fails : BOOLEAN]

\* Lines 74-79: the loop over enumerate(annotations), from position index on.
\* st.value is message_content.value, st.citations the citations list, and
\* st.raised the exception that left the loop ("none" while it runs).
RECURSIVE AnnotationLoop(_, _, _, _)
AnnotationLoop(st, annotations, index, retrieve_fails) ==
    IF index >= Len(annotations) \/ st.raised # "none" THEN st
    ELSE LET annotation == annotations[index + 1]
             replaced == StrReplace(st.value, annotation.text, IndexTag(index))
         IN  IF annotation.file = NoFile
             THEN AnnotationLoop([st EXCEPT !.value = replaced],
                                 annotations, index + 1, retrieve_fails)
             ELSE IF retrieve_fails
             THEN [st EXCEPT !.value = replaced, !.raised = "OpenAIError"]
             ELSE AnnotationLoop(
                      [st EXCEPT !.value = replaced,
                                 !.citations = Append(@, IndexTag(index) \o <<" ">>
                                                         \o <<annotation.file>>)],
                      annotations, index + 1, retrieve_fails)

\* Lines 59-81: the body of the try block; raised names the exception that
\* leaves it, value is what line 81 returns.
TryBody(resp) ==
    IF resp.err # "none"
    THEN [raised |-> resp.err, value |-> NoText, citations |-> <<>>]
    ELSE IF resp.messages = <<>>
    THEN [raised |-> "Exception", value |-> NoText, citations |-> <<>>]  \* IndexError
    ELSE LET message_content == resp.messages[1]
         IN  AnnotationLoop([raised |-> "none", value |-> message_content.value,
                             citations |-> <<>>],
                            message_content.annotations, 0, resp.retrieve_fails)

\* Faulty variant of ExceptClauses: the catch-all clause of lines 87-89 missing
ExceptClausesNoCatchAll(body) ==
    CASE body.raised = "none" -> [raised |-> FALSE, text |-> body.value]
      [] body.raised = "OpenAIError" -> [raised |-> FALSE, text |-> OpenAIErrorText]
      [] OTHER -> [raised |-> TRUE, text |-> NoText]

\* Lines 83-89: the two except clauses, applied to what the try block did.
\* The result is [raised, text]: raised is TRUE when an exception leaves
\* call_openai_assistant_api, text is the returned string otherwise.
ExceptClauses(body) ==
    CASE body.raised = "none" -> [raised |-> FALSE, text |-> body.value]
      [] body.raised = "OpenAIError" -> [raised |-> FALSE, text |-> OpenAIErrorText]
      [] OTHER -> [raised |-> FALSE, text |-> UnknownErrorText]

\* Lines 56-89
call_openai_assistant_api(resp) == ExceptClauses(TryBody(resp))

\* ------------------------------------------------------------------ events
\* The texts users send: a plain question, and one that holds a trigger phrase
UserTexts == { <<"hi">>, <<"hi">> \o TriggerWhoAreYou }

\* What parser.parse returns an element of (line 103): a text message event,
\* or any other event (line 109).  Of an event that is not a text message the
\* code reads neither the sender nor the content (line 110 comes before line
\* 112), so such an event carries none here.
TextEvents == [type : {"text"}, user_id : Users, text : UserTexts]
OtherEvents == [type : {"other"}, user_id : {"none"}, text : {NoText}]
Events == TextEvents \cup OtherEvents
NoEvent == [type |-> "none", user_id |-> "none", text |-> NoText]

\* Faulty variant of IsTextMessage: line 109 letting every event through
IsTextMessageAny(e) == TRUE

\* Line 109: the event is a MessageEvent whose message is a TextMessage
IsTextMessage(e) == e.type = "text"

\* Line 130
IsIntroduction(user_message) ==
    Contains(user_message, TriggerIntroduce) \/ Contains(user_message, TriggerWhoAreYou)

\* The backend outcomes the dispatcher is run against
DispatchResponses ==
    { [err |-> "none", messages |-> <<[value |-> <<"a">>, annotations |-> <<>>]>>,
       retrieve_fails |-> FALSE],
      [err |-> "OpenAIError", messages |-> <<>>, retrieve_fails |-> FALSE] }

\* ------------------------------------------------------------------- state
\* A batch is a sequence of events the for loop (line 108) reads one by one.
\* The code looks at no event before the loop reaches it, so the model draws
\* each event when the loop reaches it and keeps the number of events the
\* batch still holds.
VARIABLES
    now,                  \* datetime.now(), in days
    user_message_counts,  \* line 42: user_id -> [count, reset_time]
    pc,                   \* where each handle_callback invocation stands
    remaining,            \* events of its batch the loop has not reached yet
    event,                \* the event the loop body is handling
    result_text,          \* the text handed to reply_message for that event
    replies,              \* reply_message calls made with that event's reply token
    status,               \* how its last request ended: "none", "ok", "error"
    cur,                  \* what the handling of the current event observed
    forwarded,            \* backend calls begun per user since the record's last reset
    apiIn,                \* backend client alone: the backend's response
    apiOut                \* backend client alone: what the client returned

vars == <<now, user_message_counts, pc, remaining, event, result_text, replies,
          status, cur, forwarded, apiIn, apiOut>>

\* cur: outcome is the branch taken; edge: the count compared at line 122 was at
\* least USER_DAILY_LIMIT - 1 (the event took the last slot of the window, or
\* found none left) and the record has not been reset since; calls: backend
\* calls begun for the event
NoCur == [outcome |-> "none", edge |-> FALSE, calls |-> 0]
NoApi == [raised |-> FALSE, text |-> <<"NOT_CALLED">>]

\* Faulty variant of reset_user_count: the dictionary rebound to one that holds
\* the new record alone
reset_user_count_rebound(counts, user_id, t) ==
    [u \in {user_id} |-> [count |-> 0, reset_time |-> t + Day]]

\* Lines 50-54
reset_user_count(counts, user_id, t) ==
    [u \in DOMAIN counts \cup {user_id} |->
        IF u = user_id THEN [count |-> 0, reset_time |-> t + Day] ELSE counts[u]]

\* Faulty variant of NeedsReset: line 119 written with > for >=
NeedsResetStrict(counts, user_id, t) ==
    \/ user_id \notin DOMAIN counts
    \/ t > counts[user_id].reset_time

\* Lines 117 and 119: the two conditions under which the record is (re)created
NeedsReset(counts, user_id, t) ==
    \/ user_id \notin DOMAIN counts
    \/ t >= counts[user_id].reset_time

\* Lines 117-120
Rollover(counts, user_id, t) ==
    IF NeedsReset(counts, user_id, t) THEN reset_user_count(counts, user_id, t)
    ELSE counts

\* Faulty variant of LimitReached: line 122 written with > for >=
LimitReachedOffByOne(count) == count > USER_DAILY_LIMIT

\* Line 122
LimitReached(count) == count >= USER_DAILY_LIMIT

\* Faulty variant of Classify: the introduction branch of lines 130-136 never taken
ClassifyNoIntro(user_message) == "allowed"

\* Lines 130-138
Classify(user_message) ==
    IF IsIntroduction(user_message) THEN "intro" ELSE "allowed"

\* Faulty variant of Branch: the introduction test placed before the limit test
BranchIntroFirst(count, user_message) ==
    IF IsIntroduction(user_message) THEN "intro"
    ELSE IF count >= USER_DAILY_LIMIT THEN "denied"
    ELSE "allowed"

\* Lines 122-138: which branch the loop body takes once the record is current
Branch(count, user_message) ==
    IF LimitReached(count) THEN "denied" ELSE Classify(user_message)

\* Line 144
Increment(counts, user_id) ==
    [counts EXCEPT ![user_id].count = @ + 1]

\* Lines 138-142: the try/except around the backend call
ResultText(r) == IF r.raised THEN ProcessingErrorText ELSE r.text

\* Faulty variant of ResumeAfterReply: the continue of line 128 missing, so that control
\* falls through to line 130 after the quota reply
ResumeFallThrough(outcome) == IF outcome = "denied" THEN "line130" ELSE "loop"

\* Lines 128, 136, 150-108: where control goes when reply_message returns:
\* "loop" is the next iteration of the for loop
ResumeAfterReply(outcome) == "loop"

\* Faulty variant of LoopFree: the backend call awaited through an asynchronous client,
\* so that other coroutines run while it is pending
LoopFreeAsync == TRUE

\* The event loop is free: no coroutine is inside the synchronous backend call
\* (lines 60-78 contain no await, so the call never yields the loop)
LoopFree == \A g \in Handlers : pc[g] # "backend"

\* Faulty variant of LocalReply: the quota reply sent with the introduction text
LocalReplyCopied(branch) == introduction_message

\* The text of the reply on the two paths that do not call the backend
\* (lines 126 and 134)
LocalReply(branch) ==
    IF branch = "denied" THEN QuotaExceededText ELSE introduction_message

\* ----------------------------------------------------------------- actions
Init ==
    /\ now = 0
    /\ user_message_counts = [u \in {} |-> [count |-> 0, reset_time |-> 0]]
    /\ pc = [h \in Handlers |-> "idle"]
    /\ remaining = [h \in Handlers |-> 0]
    /\ event = [h \in Handlers |-> NoEvent]
    /\ result_text = [h \in Handlers |-> NoText]
    /\ replies = [h \in Handlers |-> 0]
    /\ status = [h \in Handlers |-> "none"]
    /\ cur = [h \in Handlers |-> NoCur]
    /\ forwarded = [u \in Users |-> 0]
    /\ apiIn = [err |-> "Exception", messages |-> <<>>, retrieve_fails |-> FALSE]
    /\ apiOut = NoApi

\* Time passes (also while a backend call holds the event loop)
Tick ==
    /\ now < MaxTime
    /\ now' = now + 1
    /\ UNCHANGED <<user_message_counts, pc, remaining, event, result_text, replies,
                   status, cur, forwarded, apiIn, apiOut>>

\* Lines 92-106: a webhook request arrives and is parsed into its events
Receive(h) ==
    /\ pc[h] = "idle"
    /\ LoopFree
    /\ \E n \in 0..MaxBatch : remaining' = [remaining EXCEPT ![h] = n]
    /\ pc' = [pc EXCEPT ![h] = "loop"]
    /\ status' = [status EXCEPT ![h] = "none"]
    /\ event' = [event EXCEPT ![h] = NoEvent]
    /\ UNCHANGED <<now, user_message_counts, result_text, replies, cur, forwarded,
                   apiIn, apiOut>>

\* Lines 109-110: the next event is not a text message; the loop goes on to
\* the event after it
SkipNonText(h) ==
    /\ pc[h] = "loop"
    /\ LoopFree
    /\ remaining[h] > 0
    /\ \E e \in Events :
          /\ ~IsTextMessage(e)
          /\ event' = [event EXCEPT ![h] = e]
    /\ remaining' = [remaining EXCEPT ![h] = @ - 1]
    /\ UNCHANGED <<now, user_message_counts, pc, result_text, replies, status,
                   cur, forwarded, apiIn, apiOut>>

\* Lines 112-137 run from entry point entry on text event e: the record is
\* brought up to date, the limit is compared, the text is classified; the
\* handler either starts a reply_message call (lines 124, 132) or enters the
\* backend call (line 139).
Body(h, e, entry) ==
    LET user_id == e.user_id
        user_message == e.text
        top == entry = "loop"
        rolled == top /\ NeedsReset(user_message_counts, user_id, now)
        counts1 == IF top THEN Rollover(user_message_counts, user_id, now)
                   ELSE user_message_counts
        fwd1 == IF rolled THEN 0 ELSE forwarded[user_id]
        branch == CASE entry = "loop" -> Branch(counts1[user_id].count, user_message)
                    [] entry = "line130" -> Classify(user_message)
                    [] OTHER -> "allowed"
        calls1 == IF branch = "allowed" THEN 1 ELSE 0
    IN  /\ user_message_counts' = counts1
        /\ event' = [event EXCEPT ![h] = e]
        /\ cur' = [g \in Handlers |->
                     IF g = h
                     THEN IF top
                          THEN [outcome |-> branch,
                                edge |-> counts1[user_id].count >= USER_DAILY_LIMIT - 1,
                                calls |-> calls1]
                          ELSE [cur[h] EXCEPT !.outcome = branch, !.calls = @ + calls1]
                     ELSE IF rolled /\ event[g].user_id = user_id
                          THEN [cur[g] EXCEPT !.edge = FALSE]
                          ELSE cur[g]]
        /\ IF branch = "allowed"
           THEN /\ pc' = [pc EXCEPT ![h] = "backend"]
                /\ forwarded' = [forwarded EXCEPT ![user_id] = fwd1 + 1]
                /\ UNCHANGED <<result_text, replies>>
           ELSE /\ pc' = [pc EXCEPT ![h] = "reply"]
                /\ forwarded' = [forwarded EXCEPT ![user_id] = fwd1]
                /\ result_text' = [result_text EXCEPT ![h] = LocalReply(branch)]
                /\ replies' = [replies EXCEPT ![h] = @ + 1]

\* The loop reaches a text event (pc "loop"), or control is sent back into
\* the body by ResumeAfterReply (pc "line130", "line138")
Dispatch(h) ==
    /\ LoopFree
    /\ IF pc[h] = "loop"
       THEN /\ remaining[h] > 0
            /\ remaining' = [remaining EXCEPT ![h] = @ - 1]
            /\ \E e \in Events : IsTextMessage(e) /\ Body(h, e, "loop")
       ELSE /\ pc[h] \in {"line130", "line138"}
            /\ UNCHANGED remaining
            /\ Body(h, event[h], pc[h])
    /\ UNCHANGED <<now, status, apiIn, apiOut>>

\* Faulty variant of BackendReturn: a backend call that ended in a failure
\* text is made again
BackendReturnRetry(h) ==
    /\ pc[h] = "backend"
    /\ \E resp \in DispatchResponses :
          LET text == ResultText(call_openai_assistant_api(resp))
          IN  IF text \in {OpenAIErrorText, UnknownErrorText}
              THEN /\ cur' = [cur EXCEPT ![h].calls = @ + 1]
                   /\ UNCHANGED <<user_message_counts, result_text, replies, pc>>
              ELSE /\ result_text' = [result_text EXCEPT ![h] = text]
                   /\ user_message_counts' =
                         Increment(user_message_counts, event[h].user_id)
                   /\ replies' = [replies EXCEPT ![h] = @ + 1]
                   /\ pc' = [pc EXCEPT ![h] = "reply"]
                   /\ UNCHANGED cur
    /\ UNCHANGED <<now, remaining, event, status, forwarded, apiIn, apiOut>>

\* Lines 139-147: the backend call returns, the count is incremented and the
\* reply_message call is started
BackendReturn(h) ==
    /\ pc[h] = "backend"
    /\ \E resp \in DispatchResponses :
          result_text' = [result_text EXCEPT
                             ![h] = ResultText(call_openai_assistant_api(resp))]
    /\ user_message_counts' = Increment(user_message_counts, event[h].user_id)
    /\ replies' = [replies EXCEPT ![h] = @ + 1]
    /\ pc' = [pc EXCEPT ![h] = "reply"]
    /\ UNCHANGED <<now, remaining, event, status, cur, forwarded, apiIn, apiOut>>

\* reply_message returns normally: lines 128, 136 and the end of the loop body
ReplyDelivered(h) ==
    /\ pc[h] = "reply"
    /\ LoopFree
    /\ LET resume == ResumeAfterReply(cur[h].outcome)
       IN  IF resume = "loop"
           THEN /\ pc' = [pc EXCEPT ![h] = "loop"]
                /\ event' = [event EXCEPT ![h] = NoEvent]
                /\ result_text' = [result_text EXCEPT ![h] = NoText]
                /\ replies' = [replies EXCEPT ![h] = 0]
                /\ cur' = [cur EXCEPT ![h] = NoCur]
           ELSE /\ pc' = [pc EXCEPT ![h] = resume]
                /\ UNCHANGED <<event, result_text, replies, cur>>
    /\ UNCHANGED <<now, user_message_counts, remaining, status, forwarded, apiIn,
                   apiOut>>

\* Faulty variant of ReplyFailed: the slot of an Allowed Query given back when
\* its reply is not delivered
ReplyFailedRollback(h) ==
    /\ pc[h] = "reply"
    /\ LoopFree
    /\ pc' = [pc EXCEPT ![h] = "idle"]
    /\ status' = [status EXCEPT ![h] = "error"]
    /\ result_text' = [result_text EXCEPT ![h] = NoText]
    /\ replies' = [replies EXCEPT ![h] = 0]
    /\ cur' = [cur EXCEPT ![h] = NoCur]
    /\ event' = [event EXCEPT ![h] = NoEvent]
    /\ user_message_counts' =
          IF cur[h].outcome = "allowed"
          THEN [user_message_counts EXCEPT ![event[h].user_id].count = @ - 1]
          ELSE user_message_counts
    /\ UNCHANGED <<now, remaining, forwarded, apiIn, apiOut>>

\* reply_message raises (lines 124, 132, 147 are outside any try): the
\* exception leaves handle_callback (status "error"); the event being answered
\* gets no reply and the remaining events of the batch are never reached
ReplyFailed(h) ==
    /\ pc[h] = "reply"
    /\ LoopFree
    /\ pc' = [pc EXCEPT ![h] = "idle"]
    /\ status' = [status EXCEPT ![h] = "error"]
    /\ result_text' = [result_text EXCEPT ![h] = NoText]
    /\ replies' = [replies EXCEPT ![h] = 0]
    /\ cur' = [cur EXCEPT ![h] = NoCur]
    /\ event' = [event EXCEPT ![h] = NoEvent]
    /\ UNCHANGED <<now, user_message_counts, remaining, forwarded, apiIn, apiOut>>

\* Line 152: the loop is over
Finish(h) ==
    /\ pc[h] = "loop"
    /\ LoopFree
    /\ remaining[h] = 0
    /\ pc' = [pc EXCEPT ![h] = "idle"]
    /\ status' = [status EXCEPT ![h] = "ok"]
    /\ event' = [event EXCEPT ![h] = NoEvent]
    /\ UNCHANGED <<now, user_message_counts, remaining, result_text, replies, cur,
                   forwarded, apiIn, apiOut>>

Next ==
    \/ Tick
    \/ \E h \in Handlers : Receive(h)
    \/ \E h \in Handlers : SkipNonText(h)
    \/ \E h \in Handlers : Dispatch(h)
    \/ \E h \in Handlers : BackendReturn(h)
    \/ \E h \in Handlers : ReplyDelivered(h)
    \/ \E h \in Handlers : ReplyFailed(h)
    \/ \E h \in Handlers : Finish(h)

Spec == Init /\ [][Next]_vars

\* ---------------------------------------------- the backend client alone
InitApi ==
    /\ now = 0
    /\ user_message_counts = [u \in {} |-> [count |-> 0, reset_time |-> 0]]
    /\ pc = [h \in Handlers |-> "idle"]
    /\ remaining = [h \in Handlers |-> 0]
    /\ event = [h \in Handlers |-> NoEvent]
    /\ result_text = [h \in Handlers |-> NoText]
    /\ replies = [h \in Handlers |-> 0]
    /\ status = [h \in Handlers |-> "none"]
    /\ cur = [h \in Handlers |-> NoCur]
    /\ forwarded = [u \in Users |-> 0]
    /\ apiIn \in Responses
    /\ apiOut = NoApi

ApiCall ==
    /\ apiOut = NoApi
    /\ apiOut' = call_openai_assistant_api(apiIn)
    /\ UNCHANGED <<now, user_message_counts, pc, remaining, event, result_text,
                   replies, status, cur, forwarded, apiIn>>

NextApi == ApiCall

SpecApi == InitApi /\ [][NextApi]_vars

\* ================================================================= claims
\* The loop body is entered for a text event by handler h in this step
DispatchStep(h) == pc[h] = "loop" /\ pc'[h] \in {"backend", "reply"}

\* u has a record whose window is still open: the message arrives before resetAt
InWindow(u) ==
    u \in DOMAIN user_message_counts /\ now < user_message_counts[u].reset_time

IsQuery(e) == e.type = "text" /\ ~IsIntroduction(e.text)

\* C1: within one window of a user, a Query is forwarded to the backend exactly
\* when fewer than USER_DAILY_LIMIT Queries of that user were forwarded in the
\* window so far; every later Query gets the quota-exceeded text and is not
\* forwarded; so no window sees more than USER_DAILY_LIMIT forwarded Queries.
C1_QuotaWindow ==
    /\ [](\A u \in Users : forwarded[u] <= USER_DAILY_LIMIT)
    /\ [][\A h \in Handlers :
            (DispatchStep(h) /\ IsQuery(event'[h]) /\ InWindow(event'[h].user_id)) =>
                LET u == event'[h].user_id
                IN  IF forwarded[u] < USER_DAILY_LIMIT
                    THEN pc'[h] = "backend" /\ forwarded'[u] = forwarded[u] + 1
                    ELSE /\ pc'[h] = "reply"
                         /\ result_text'[h] = QuotaExceededText
                         /\ forwarded'[u] = forwarded[u]]_vars

\* A Query is answered with the quota text after USER_DAILY_LIMIT Queries of the
\* window were forwarded
C1_Witness ==
    \E h \in Handlers :
        /\ pc[h] = "reply"
        /\ IsQuery(event[h])
        /\ cur[h].outcome = "denied"
        /\ result_text[h] = QuotaExceededText
        /\ forwarded[event[h].user_id] = USER_DAILY_LIMIT

\* h took the last slot of its user's current window and its event is still in
\* flight
HoldsLastSlot(h) ==
    /\ pc[h] \in {"backend", "reply"}
    /\ IsQuery(event[h])
    /\ cur[h].outcome = "allowed"
    /\ cur[h].edge

\* C2: when a Query took the last slot of a user's window (count was
\* USER_DAILY_LIMIT - 1) and is still being handled, a second Query of the same
\* user handled meanwhile in that window is denied with the quota text; the two
\* are never both forwarded.
C2_LastSlotOnce ==
    /\ [](\A h1, h2 \in Handlers :
            ~(h1 # h2 /\ HoldsLastSlot(h1) /\ HoldsLastSlot(h2)
              /\ event[h1].user_id = event[h2].user_id))
    /\ [][\A h1, h2 \in Handlers :
            (/\ DispatchStep(h2)
             /\ h1 # h2
             /\ HoldsLastSlot(h1)
             /\ IsQuery(event'[h2])
             /\ event'[h2].user_id = event[h1].user_id
             /\ InWindow(event[h1].user_id))
                => /\ cur'[h2].outcome = "denied"
                   /\ pc'[h2] = "reply"
                   /\ result_text'[h2] = QuotaExceededText]_vars

\* One Query holds the last slot and awaits its reply while another Query of
\* the same user has been denied in the same window
C2_Witness ==
    \E h1, h2 \in Handlers :
        /\ h1 # h2
        /\ HoldsLastSlot(h1)
        /\ pc[h2] = "reply"
        /\ IsQuery(event[h2])
        /\ cur[h2].outcome = "denied"
        /\ event[h1].user_id = event[h2].user_id
        /\ cur[h2].edge

\* C3: a text message of a user whose record has expired (now >= reset_time)
\* sets the count to 0 and reset_time to now + Day before the limit is
\* compared: the message is not denied, and a Query is forwarded as the first
\* of the new window.
C3_Rollover ==
    [][\A h \in Handlers :
          (/\ DispatchStep(h)
           /\ event'[h].user_id \in DOMAIN user_message_counts
           /\ now >= user_message_counts[event'[h].user_id].reset_time) =>
              LET u == event'[h].user_id
              IN  /\ user_message_counts'[u] = [count |-> 0, reset_time |-> now + Day]
                  /\ cur'[h].outcome # "denied"
                  /\ IsQuery(event'[h]) => (pc'[h] = "backend" /\ forwarded'[u] = 1)]_vars

\* A Query is forwarded as the first of a new window while a message of the
\* same user, denied in the expired window, still awaits its reply
C3_Witness ==
    \E h1, h2 \in Handlers :
        /\ pc[h1] = "backend"
        /\ user_message_counts[event[h1].user_id] = [count |-> 0, reset_time |-> now + Day]
        /\ forwarded[event[h1].user_id] = 1
        /\ pc[h2] = "reply"
        /\ event[h2].user_id = event[h1].user_id
        /\ cur[h2].outcome = "denied"
        /\ ~cur[h2].edge

IsIntro(e) == e.type = "text" /\ IsIntroduction(e.text)

\* C4 as stated: handling an Introduction message never changes the count of
\* the sending user's record, wherever now stands relative to reset_time.
C4_Original ==
    [][\A h \in Handlers :
          (/\ DispatchStep(h)
           /\ IsIntro(event'[h])
           /\ event'[h].user_id \in DOMAIN user_message_counts) =>
              user_message_counts'[event'[h].user_id].count
                  = user_message_counts[event'[h].user_id].count]_vars

\* C4 amended: handling an Introduction message never charges a slot: it calls
\* no backend, leaves the record as it is when the message arrives before
\* reset_time, and otherwise only applies the rollover (count 0, reset_time
\* now + Day); delivering its reply changes no record.
C4_IntroNoCharge ==
    [][\A h \in Handlers :
          /\ (DispatchStep(h) /\ IsIntro(event'[h])) =>
                LET u == event'[h].user_id
                IN  /\ pc'[h] = "reply"
                    /\ forwarded'[u] <= forwarded[u]
                    /\ IF InWindow(u)
                       THEN user_message_counts'[u] = user_message_counts[u]
                       ELSE user_message_counts'[u]
                                = [count |-> 0, reset_time |-> now + Day]
          /\ (pc[h] = "reply" /\ IsIntro(event[h]) /\ pc'[h] # "reply") =>
                /\ user_message_counts' = user_message_counts
                /\ pc'[h] \in {"loop", "idle"}]_vars

\* An Introduction message that met a count of USER_DAILY_LIMIT - 1 is being
\* answered, the record of its window untouched
C4_Witness ==
    \E h \in Handlers :
        /\ pc[h] = "reply"
        /\ IsIntro(event[h])
        /\ cur[h].outcome = "intro"
        /\ cur[h].edge
        /\ user_message_counts[event[h].user_id].count = USER_DAILY_LIMIT - 1
        /\ forwarded[event[h].user_id] = USER_DAILY_LIMIT - 1

\* C5 as stated: every Introduction message is answered with the introduction
\* text, also when the user's count has reached USER_DAILY_LIMIT.
C5_Original ==
    \A h \in Handlers :
        (pc[h] = "reply" /\ IsIntro(event[h])) => result_text[h] = introduction_message

\* C5 amended: the limit is compared first: an Introduction message is answered
\* with the introduction text when the count, after the rollover, is below
\* USER_DAILY_LIMIT, and with the quota-exceeded text when it has reached it.
C5_IntroReply ==
    [][\A h \in Handlers :
          (DispatchStep(h) /\ IsIntro(event'[h])) =>
              LET u == event'[h].user_id
                  atLimit == InWindow(u) /\ user_message_counts[u].count >= USER_DAILY_LIMIT
              IN  /\ pc'[h] = "reply"
                  /\ result_text'[h] =
                        IF atLimit THEN QuotaExceededText ELSE introduction_message]_vars

\* One Introduction message is answered with the introduction text while
\* another, of a user at the limit, is answered with the quota text
C5_Witness ==
    \E h1, h2 \in Handlers :
        /\ pc[h1] = "reply" /\ IsIntro(event[h1])
        /\ result_text[h1] = introduction_message
        /\ pc[h2] = "reply" /\ IsIntro(event[h2])
        /\ result_text[h2] = QuotaExceededText
        /\ user_message_counts[event[h2].user_id].count = USER_DAILY_LIMIT

\* C6: the reply token of an event is used for at most one reply_message call,
\* on every path.
C6_OneReply ==
    \A h \in Handlers : replies[h] <= 1

\* Two events are each being answered with their one reply, one after the
\* backend call and one with the quota text
C6_Witness ==
    \E h1, h2 \in Handlers :
        /\ pc[h1] = "reply" /\ cur[h1].outcome = "allowed" /\ replies[h1] = 1
        /\ pc[h2] = "reply" /\ cur[h2].outcome = "denied" /\ replies[h2] = 1

\* C7: when a request has ended, every event of its batch has been answered:
\* the request did not end in an exception that left the event at hand without
\* its reply, and no event of the batch is left unreached.
C7_AllAnswered ==
    \A h \in Handlers :
        status[h] # "none" => (status[h] = "ok" /\ remaining[h] = 0)

\* C8: a Query denied at the limit leaves the user's record (count and
\* reset_time) unchanged, starts no backend call and is answered with the
\* quota-exceeded text; delivering that reply changes nothing either.
C8_DeniedNoEffect ==
    [][\A h \in Handlers :
          /\ (DispatchStep(h) /\ IsQuery(event'[h]) /\ cur'[h].outcome = "denied") =>
                /\ user_message_counts' = user_message_counts
                /\ forwarded' = forwarded
                /\ cur'[h].calls = 0
                /\ pc'[h] = "reply"
                /\ result_text'[h] = QuotaExceededText
          /\ (pc[h] = "reply" /\ cur[h].outcome = "denied" /\ pc'[h] # "reply") =>
                /\ user_message_counts' = user_message_counts
                /\ forwarded' = forwarded
                /\ pc'[h] \in {"loop", "idle"}]_vars

\* A denied Query is awaiting its one reply, no backend call made for it
C8_Witness ==
    \E h \in Handlers :
        /\ pc[h] = "reply"
        /\ IsQuery(event[h])
        /\ cur[h].outcome = "denied"
        /\ cur[h].calls = 0
        /\ replies[h] = 1
        /\ user_message_counts[event[h].user_id].count >= USER_DAILY_LIMIT

\* The backend call produced a message and no call failed
ApiSucceeded ==
    /\ apiIn.err = "none"
    /\ apiIn.messages # <<>>
    /\ \/ ~apiIn.retrieve_fails
       \/ \A i \in 1..Len(apiIn.messages[1].annotations) :
              apiIn.messages[1].annotations[i].file = NoFile

\* C9: the backend client returns a text for every outcome of the backend and
\* never raises: an OpenAIError gives the first failure text, any other failure
\* (an empty message list included) gives the second, distinct failure text,
\* and a successful answer without annotations is returned as it is.
C9_ClientTotal ==
    apiOut # NoApi =>
        /\ ~apiOut.raised
        /\ OpenAIErrorText # UnknownErrorText
        /\ apiIn.err = "OpenAIError" => apiOut.text = OpenAIErrorText
        /\ (apiIn.err = "none" /\ apiIn.messages # <<>> /\ ~ApiSucceeded)
              => apiOut.text = OpenAIErrorText
        /\ apiIn.err = "Exception" => apiOut.text = UnknownErrorText
        /\ (apiIn.err = "none" /\ apiIn.messages = <<>>)
              => apiOut.text = UnknownErrorText
        /\ (ApiSucceeded /\ apiIn.messages[1].annotations = <<>>)
              => apiOut.text = apiIn.messages[1].value
        /\ ApiSucceeded => apiOut.text \notin {OpenAIErrorText, UnknownErrorText}

\* The client was called on an empty message list and returned the second
\* failure text
C9_Witness ==
    /\ apiOut # NoApi
    /\ apiIn.err = "none"
    /\ apiIn.messages = <<>>
    /\ apiOut.text = UnknownErrorText

\* The reference list of a message: one line "[i] filename" for each annotation
\* that cites a file, i its position among the annotations
RECURSIVE ReferenceList(_, _)
ReferenceList(annotations, index) ==
    IF index >= Len(annotations) THEN <<>>
    ELSE LET a == annotations[index + 1]
             rest == ReferenceList(annotations, index + 1)
         IN  IF a.file = NoFile THEN rest
             ELSE <<"\n">> \o IndexTag(index) \o <<" ", a.file>> \o rest

\* The message has annotations and its text contains the text of each
ApiAnnotated ==
    /\ ApiSucceeded
    /\ apiIn.messages[1].annotations # <<>>
    /\ \A i \in 1..Len(apiIn.messages[1].annotations) :
          Contains(apiIn.messages[1].value, apiIn.messages[1].annotations[i].text)

\* C10: the reply of a successful call whose message text contains the
\* annotations A0, A1, ... ends with the reference list, one line per citation
\* in the order of the annotations, and carries "[0]" for A0.
C10_ReferenceList ==
    (apiOut # NoApi /\ ApiAnnotated) =>
        /\ EndsWith(apiOut.text, ReferenceList(apiIn.messages[1].annotations, 0))
        /\ Contains(apiOut.text, IndexTag(0))

\* The backend call of handler h returns in this step
ReturnStep(h) == pc[h] = "backend" /\ pc'[h] # "backend"

\* C11: for every Allowed Query the user's count is incremented before the
\* backend call starts: the step that enters the call leaves the count one
\* above the count the limit was compared with; and the return of the call
\* neither changes the record nor turns the reply into the quota text.
C11_ReservedBefore ==
    [][\A h \in Handlers :
          /\ (DispatchStep(h) /\ pc'[h] = "backend") =>
                LET u == event'[h].user_id
                IN  user_message_counts'[u].count =
                        (IF InWindow(u) THEN user_message_counts[u].count ELSE 0) + 1
          /\ ReturnStep(h) =>
                /\ user_message_counts' = user_message_counts
                /\ pc'[h] = "reply"
                /\ result_text'[h] # QuotaExceededText]_vars

\* C12: an Allowed Query charges exactly one slot, never given back: nothing
\* touches the records while its backend call runs; when the call returns,
\* with an answer or with a failure text, the user's count is one higher and
\* reset_time is as it was; the end of its reply_message call, delivered or
\* not (failure, cancellation), changes no record; and no step ever lowers a
\* count except the rollover, which sets it to 0.
C12_ChargedOnce ==
    [][/\ \A h \in Handlers :
            /\ (pc[h] = "backend" /\ pc'[h] = "backend") =>
                  user_message_counts' = user_message_counts
            /\ ReturnStep(h) =>
                  LET u == event[h].user_id
                  IN  /\ pc'[h] = "reply"
                      /\ result_text'[h] # QuotaExceededText
                      /\ user_message_counts'[u].count = user_message_counts[u].count + 1
                      /\ user_message_counts'[u].reset_time
                            = user_message_counts[u].reset_time
            /\ (pc[h] = "reply" /\ cur[h].outcome = "allowed" /\ pc'[h] # "reply") =>
                  /\ user_message_counts' = user_message_counts
                  /\ pc'[h] \in {"loop", "idle"}
       /\ \A u \in DOMAIN user_message_counts :
            \/ user_message_counts'[u].count >= user_message_counts[u].count
            \/ user_message_counts'[u] = [count |-> 0, reset_time |-> now + Day]]_vars

\* A Query whose backend call failed awaits its reply with the failure text,
\* the slot charged
C12_Witness ==
    \E h \in Handlers :
        /\ pc[h] = "reply"
        /\ cur[h].outcome = "allowed"
        /\ result_text[h] = OpenAIErrorText
        /\ user_message_counts[event[h].user_id].count = 1
        /\ forwarded[event[h].user_id] = 1

\* C13: in every reachable state the count of a user's record equals the
\* number of that user's Queries forwarded to the backend since the record was
\* created or last reset, whatever Introduction or denied messages came in
\* between.
C13_CountIsForwarded ==
    \A u \in DOMAIN user_message_counts :
        user_message_counts[u].count = forwarded[u]

\* The texts the backend client gives for a failed call, and the text line 142
\* puts in their place when the client itself raises
FailureTexts == {OpenAIErrorText, UnknownErrorText, ProcessingErrorText}

\* C14: the backend is called exactly once for a Query that finds the count
\* below the limit and never for an Introduction or a denied message; the call
\* is entered only from the top of the loop body, so it is never made again for
\* the same event; when it returns, the event gets its reply, which is the
\* backend's answer or a failure text.
C14_OneBackendCall ==
    /\ [](\A h \in Handlers :
            /\ cur[h].calls <= 1
            /\ pc[h] = "backend" => (cur[h].calls = 1 /\ IsQuery(event[h]))
            /\ pc[h] = "reply" =>
                  cur[h].calls = (IF result_text[h] \in {QuotaExceededText,
                                                         introduction_message}
                                  THEN 0 ELSE 1))
    /\ [][\A h \in Handlers :
            /\ DispatchStep(h) =>
                  LET u == event'[h].user_id
                      atLimit == /\ InWindow(u)
                                 /\ user_message_counts[u].count >= USER_DAILY_LIMIT
                      call == IsQuery(event'[h]) /\ ~atLimit
                  IN  /\ cur'[h].calls = (IF call THEN 1 ELSE 0)
                      /\ pc'[h] = (IF call THEN "backend" ELSE "reply")
            /\ (pc[h] # "backend" /\ pc'[h] = "backend") => DispatchStep(h)
            /\ pc[h] = "backend" => cur'[h] = cur[h]
            /\ ReturnStep(h) =>
                  /\ pc'[h] = "reply"
                  /\ replies'[h] = 1
                  /\ result_text'[h] \in FailureTexts \cup {<<"a">>}]_vars

\* A Query whose one backend call failed is being answered with the failure
\* text while an Introduction message, for which no call was made, is being
\* answered too
C14_Witness ==
    \E h1, h2 \in Handlers :
        /\ pc[h1] = "reply"
        /\ IsQuery(event[h1])
        /\ cur[h1].calls = 1
        /\ result_text[h1] \in FailureTexts
        /\ pc[h2] = "reply"
        /\ IsIntro(event[h2])
        /\ cur[h2].calls = 0

\* C15: while a Query of one user is inside its backend call, another request
\* can go on with an event of a different user without waiting for that call:
\* if its loop stands before an event, the event can be checked against its
\* user's quota; if it awaits a reply_message call, the call can complete.
C15_UsersNotBlocked ==
    \A h1, h2 \in Handlers :
        (h1 # h2 /\ pc[h1] = "backend") =>
            /\ (pc[h2] = "loop" /\ remaining[h2] > 0) =>
                  ENABLED (Dispatch(h2) /\ event'[h2].user_id # event[h1].user_id)
            /\ (pc[h2] = "reply" /\ event[h2].user_id # event[h1].user_id) =>
                  ENABLED ReplyDelivered(h2)

\* C16: an event that is not a text message is ignored: the step in which the
\* loop takes it from the batch starts no reply_message call and no backend
\* call and leaves every quota record as it is; the handler stays at the top
\* of its loop.
C16_NonTextIgnored ==
    [][\A h \in Handlers :
          (/\ pc[h] = "loop"
           /\ remaining'[h] = remaining[h] - 1
           /\ event'[h].type # "text") =>
              /\ pc' = pc
              /\ replies' = replies
              /\ result_text' = result_text
              /\ cur' = cur
              /\ forwarded' = forwarded
              /\ user_message_counts' = user_message_counts]_vars

\* The loop has just passed over an event that is not a text message: no reply
\* and no backend call were started and the store holds no record
C16_Witness ==
    \E h \in Handlers :
        /\ pc[h] = "loop"
        /\ event[h].type = "other"
        /\ replies[h] = 0
        /\ cur[h].calls = 0
        /\ user_message_counts = << >>

\* C17: in every reachable state, whatever the interleaving of the requests
\* being handled, every record's count is between 0 and USER_DAILY_LIMIT.
C17_CountInRange ==
    \A u \in DOMAIN user_message_counts :
        /\ user_message_counts[u].count >= 0
        /\ user_message_counts[u].count <= USER_DAILY_LIMIT

\* Two Queries of one user, both forwarded, await their replies in two
\* requests, the second having brought the count to USER_DAILY_LIMIT
C17_Witness ==
    \E h1, h2 \in Handlers :
        /\ h1 # h2
        /\ pc[h1] = "reply" /\ cur[h1].outcome = "allowed"
        /\ pc[h2] = "reply" /\ cur[h2].outcome = "allowed"
        /\ event[h1].user_id = event[h2].user_id
        /\ user_message_counts[event[h1].user_id].count = USER_DAILY_LIMIT

\* C18: handling an event of one user leaves the record of every other user as
\* it is, both when the loop body is entered and when the backend call
\* returns; no other step changes the store; and a record, once created, is
\* never removed.
C18_OtherUsersUntouched ==
    [][/\ DOMAIN user_message_counts \subseteq DOMAIN user_message_counts'
       /\ \A h \in Handlers :
            /\ DispatchStep(h) =>
                  \A v \in DOMAIN user_message_counts \ {event'[h].user_id} :
                      user_message_counts'[v] = user_message_counts[v]
            /\ ReturnStep(h) =>
                  \A v \in DOMAIN user_message_counts \ {event[h].user_id} :
                      user_message_counts'[v] = user_message_counts[v]
       /\ user_message_counts' # user_message_counts =>
             \E h \in Handlers : DispatchStep(h) \/ ReturnStep(h)]_vars

\* A Query of one user has been charged and awaits its reply while the other
\* user's record, created earlier, stands with a different count
C18_Witness ==
    \E h \in Handlers : \E v \in DOMAIN user_message_counts :
        /\ pc[h] = "reply"
        /\ cur[h].outcome = "allowed"
        /\ v # event[h].user_id
        /\ user_message_counts[v].count >= 1
        /\ user_message_counts[v].count # user_message_counts[event[h].user_id].count

====
